---- MODULE Spec2Model ----
(***************************************************************************)
(* The error type of the jsonwebtoken crate (src/src/errors.rs): the       *)
(* boxed Error wrapper, the ErrorKind enumeration, the static message      *)
(* table, Display / description / cause, and the From conversions.         *)
(*                                                                         *)
(* A caller holds a few Error values.  It builds each through one of the   *)
(* six public conversions, inspects it through kind(), Display,            *)
(* description() and cause(), and may finally unwrap it with into_kind(),  *)
(* which moves the kind out and ends the Error's life.                     *)
(***************************************************************************)
EXTENDS Integers, Sequences, FiniteSets, TLC

VARIABLES
    errs,      \* errs[s]: the Error value held in s, or Uninit / Moved
    origin,    \* origin[s]: the conversion and the input errs[s] was built from
    calls,     \* calls[s]: what each accessor last returned on errs[s]
    panicked   \* TRUE once an unwrap() has met None

vars == <<errs, origin, calls, panicked>>

---------------------------------------------------------------------------
(* Bounds *)

\* Number of distinct failure values of each foreign failure type.
NumPayloads == 2

\* The Error values a caller holds at once.
Slots == {"e1", "e2"}

---------------------------------------------------------------------------
(* Option<T> *)

None == [some |-> FALSE]
Some(v) == [some |-> TRUE, val |-> v]

\* The outcome of evaluating an expression that may unwrap(): a value, or a panic.
Returned(v) == [panic |-> FALSE, val |-> v]
Panic == [panic |-> TRUE]
Unwrap(opt) == IF opt.some THEN Returned(opt.val) ELSE Panic

---------------------------------------------------------------------------
(* Foreign failure types.  Their values are opaque to errors.rs; each has *)
(* its own Display rendering and its own description(), which depend on   *)
(* the value.                                                             *)

ForeignFailures(type) == [type : {type}, id : 1..NumPayloads]

DecodeErrors  == ForeignFailures("base64::DecodeError")
JsonErrors    == ForeignFailures("serde_json::Error")
FromUtf8Errors == ForeignFailures("FromUtf8Error")
Unspecifieds  == ForeignFailures("ring::error::Unspecified")
KeyRejecteds  == ForeignFailures("ring::error::KeyRejected")

\* `{}` applied to a foreign failure: the failure's own rendering.
ForeignDisplay(err) == err.type \o " #" \o ToString(err.id)

\* err.description() of a foreign failure.
ForeignDescription(err) == "description of " \o err.type \o " #" \o ToString(err.id)

---------------------------------------------------------------------------
(* ErrorKind *)

IntrinsicTags ==
    { "InvalidToken", "InvalidSignature", "InvalidEcdsaKey", "InvalidRsaKey",
      "InvalidAlgorithmName", "InvalidKeyFormat",
      "ExpiredSignature", "InvalidIssuer", "InvalidAudience", "InvalidSubject",
      "ImmatureSignature", "InvalidAlgorithm" }

WrappedTags == { "Base64", "Json", "Utf8", "Crypto" }

NonexhaustiveTag == "__Nonexhaustive"

Unit(tag) == [tag |-> tag]
Wrap(tag, err) == [tag |-> tag, payload |-> err]

ErrorKind ==
    { Unit(t) : t \in IntrinsicTags }
    \cup { Wrap("Base64", p) : p \in DecodeErrors }
    \cup { Wrap("Json", p) : p \in JsonErrors }
    \cup { Wrap("Utf8", p) : p \in FromUtf8Errors }
    \cup { Wrap("Crypto", p) : p \in Unspecifieds }
    \cup { Unit(NonexhaustiveTag) }

---------------------------------------------------------------------------
(* struct Error(Box<ErrorKind>) and its accessors *)

new_error(k) == [kind |-> k]

Error == { new_error(k) : k \in ErrorKind }

\* A slot that holds no usable Error: never assigned, or moved out of.
Uninit == [unusable |-> "uninit"]
Moved == [unusable |-> "moved"]
Live(e) == "kind" \in DOMAIN e

kind_Stale(e) == Unit(e.kind.tag)
kind(e) == e.kind

into_kind(e) == e.kind

---------------------------------------------------------------------------
(* ErrorKind::description: the static message table *)

ErrorKind_description_Swapped(k) ==
    CASE k.tag = "InvalidToken" -> Some("invalid token")
      [] k.tag = "InvalidSignature" -> Some("invalid signature")
      [] k.tag = "InvalidEcdsaKey" -> Some("invalid ECDSA key")
      [] k.tag = "InvalidRsaKey" -> Some("invalid RSA key")
      [] k.tag = "ExpiredSignature" -> Some("expired signature")
      [] k.tag = "InvalidIssuer" -> Some("invalid issuer")
      [] k.tag = "InvalidAudience" -> Some("invalid audience")
      [] k.tag = "InvalidSubject" -> Some("invalid subject")
      [] k.tag = "ImmatureSignature" -> Some("immature signature")
      [] k.tag = "InvalidAlgorithm" -> Some("not a known algorithm")
      [] k.tag = "InvalidAlgorithmName" -> Some("algorithms don't match")
      [] k.tag = "InvalidKeyFormat" -> Some("invalid key format")
      [] k.tag = "__Nonexhaustive" -> Some("unknown error")
      [] k.tag \in {"Base64", "Json", "Utf8", "Crypto"} -> None

ErrorKind_description_Unknown(k) ==
    CASE k.tag = "InvalidToken" -> Some("invalid token")
      [] k.tag = "InvalidSignature" -> Some("invalid signature")
      [] k.tag = "InvalidEcdsaKey" -> Some("invalid ECDSA key")
      [] k.tag = "InvalidRsaKey" -> Some("invalid RSA key")
      [] k.tag = "ExpiredSignature" -> Some("expired signature")
      [] k.tag = "InvalidIssuer" -> Some("invalid issuer")
      [] k.tag = "InvalidAudience" -> Some("invalid audience")
      [] k.tag = "InvalidSubject" -> Some("invalid subject")
      [] k.tag = "ImmatureSignature" -> Some("immature signature")
      [] k.tag = "InvalidAlgorithm" -> Some("algorithms don't match")
      [] k.tag = "InvalidAlgorithmName" -> Some("not a known algorithm")
      [] k.tag = "InvalidKeyFormat" -> Some("invalid key format")
      [] k.tag = "__Nonexhaustive" -> Some("invalid token")
      [] k.tag \in {"Base64", "Json", "Utf8", "Crypto"} -> None

ErrorKind_description_NoCatchAll(k) ==
    CASE k.tag = "InvalidToken" -> Some("invalid token")
      [] k.tag = "InvalidSignature" -> Some("invalid signature")
      [] k.tag = "InvalidEcdsaKey" -> Some("invalid ECDSA key")
      [] k.tag = "InvalidRsaKey" -> Some("invalid RSA key")
      [] k.tag = "ExpiredSignature" -> Some("expired signature")
      [] k.tag = "InvalidIssuer" -> Some("invalid issuer")
      [] k.tag = "InvalidAudience" -> Some("invalid audience")
      [] k.tag = "InvalidSubject" -> Some("invalid subject")
      [] k.tag = "ImmatureSignature" -> Some("immature signature")
      [] k.tag = "InvalidAlgorithm" -> Some("algorithms don't match")
      [] k.tag = "InvalidAlgorithmName" -> Some("not a known algorithm")
      [] k.tag = "InvalidKeyFormat" -> Some("invalid key format")
      [] k.tag \in {"Base64", "Json", "Utf8", "Crypto", "__Nonexhaustive"} -> None

ErrorKind_description(k) ==
    CASE k.tag = "InvalidToken" -> Some("invalid token")
      [] k.tag = "InvalidSignature" -> Some("invalid signature")
      [] k.tag = "InvalidEcdsaKey" -> Some("invalid ECDSA key")
      [] k.tag = "InvalidRsaKey" -> Some("invalid RSA key")
      [] k.tag = "ExpiredSignature" -> Some("expired signature")
      [] k.tag = "InvalidIssuer" -> Some("invalid issuer")
      [] k.tag = "InvalidAudience" -> Some("invalid audience")
      [] k.tag = "InvalidSubject" -> Some("invalid subject")
      [] k.tag = "ImmatureSignature" -> Some("immature signature")
      [] k.tag = "InvalidAlgorithm" -> Some("algorithms don't match")
      [] k.tag = "InvalidAlgorithmName" -> Some("not a known algorithm")
      [] k.tag = "InvalidKeyFormat" -> Some("invalid key format")
      [] k.tag = "__Nonexhaustive" -> Some("unknown error")
      [] k.tag \in {"Base64", "Json", "Utf8", "Crypto"} -> None

---------------------------------------------------------------------------
(* impl std::error::Error for Error *)

\* The tags of the first match arm of Error::description, which unwraps the table.
DescriptionUnwrapArm ==
    { "InvalidToken", "InvalidSignature", "InvalidEcdsaKey", "InvalidRsaKey",
      "ExpiredSignature", "InvalidIssuer", "InvalidAudience", "InvalidSubject",
      "ImmatureSignature", "InvalidAlgorithm", "InvalidKeyFormat",
      "InvalidAlgorithmName", "__Nonexhaustive" }

Error_description(e) ==
    CASE e.kind.tag \in DescriptionUnwrapArm -> Unwrap(ErrorKind_description(e.kind))
      [] e.kind.tag = "Base64" -> Returned(ForeignDescription(e.kind.payload))
      [] e.kind.tag = "Json" -> Returned(ForeignDescription(e.kind.payload))
      [] e.kind.tag = "Utf8" -> Returned(ForeignDescription(e.kind.payload))
      [] e.kind.tag = "Crypto" -> Returned("undefined error")

Error_cause_CryptoChained(e) ==
    CASE e.kind.tag \in IntrinsicTags -> None
      [] e.kind.tag = "Base64" -> Some(e.kind.payload)
      [] e.kind.tag = "Json" -> Some(e.kind.payload)
      [] e.kind.tag = "Utf8" -> Some(e.kind.payload)
      [] e.kind.tag = "Crypto" -> Some(e.kind.payload)
      [] e.kind.tag = "__Nonexhaustive" -> None

Error_cause(e) ==
    CASE e.kind.tag = "InvalidToken" -> None
      [] e.kind.tag = "InvalidSignature" -> None
      [] e.kind.tag = "InvalidEcdsaKey" -> None
      [] e.kind.tag = "InvalidRsaKey" -> None
      [] e.kind.tag = "ExpiredSignature" -> None
      [] e.kind.tag = "InvalidIssuer" -> None
      [] e.kind.tag = "InvalidAudience" -> None
      [] e.kind.tag = "InvalidSubject" -> None
      [] e.kind.tag = "ImmatureSignature" -> None
      [] e.kind.tag = "InvalidAlgorithm" -> None
      [] e.kind.tag = "InvalidAlgorithmName" -> None
      [] e.kind.tag = "InvalidKeyFormat" -> None
      [] e.kind.tag = "Base64" -> Some(e.kind.payload)
      [] e.kind.tag = "Json" -> Some(e.kind.payload)
      [] e.kind.tag = "Utf8" -> Some(e.kind.payload)
      [] e.kind.tag = "Crypto" -> None
      [] e.kind.tag = "__Nonexhaustive" -> None

---------------------------------------------------------------------------
(* impl fmt::Display for Error *)

\* The tags of the first match arm of fmt, which unwraps the table.
FmtUnwrapArm ==
    { "InvalidToken", "InvalidSignature", "InvalidEcdsaKey", "InvalidRsaKey",
      "ExpiredSignature", "InvalidIssuer", "InvalidAudience", "InvalidSubject",
      "ImmatureSignature", "InvalidAlgorithm", "InvalidKeyFormat",
      "InvalidAlgorithmName", "__Nonexhaustive" }

fmt_Json_Description(err) == "JSON error: " \o ForeignDescription(err)
fmt_Json(err) == "JSON error: " \o ForeignDisplay(err)

fmt_Utf8(err) == "UTF-8 error: " \o ForeignDisplay(err)

fmt_Crypto_Detailed(err) == "Crypto error: " \o ForeignDisplay(err)
fmt_Crypto(err) == "Crypto error: undefined"

fmt_Base64(err) == "Base64 error: " \o ForeignDisplay(err)

Error_fmt(e) ==
    CASE e.kind.tag \in FmtUnwrapArm -> Unwrap(ErrorKind_description(e.kind))
      [] e.kind.tag = "Json" -> Returned(fmt_Json(e.kind.payload))
      [] e.kind.tag = "Utf8" -> Returned(fmt_Utf8(e.kind.payload))
      [] e.kind.tag = "Crypto" -> Returned(fmt_Crypto(e.kind.payload))
      [] e.kind.tag = "Base64" -> Returned(fmt_Base64(e.kind.payload))

---------------------------------------------------------------------------
(* The conversions into Error *)

From_DecodeError(err) == new_error(Wrap("Base64", err))

From_JsonError(err) == new_error(Wrap("Json", err))

From_FromUtf8Error(err) == new_error(Wrap("Utf8", err))

From_Unspecified_Dropped(err) == new_error(Unit("InvalidSignature"))
From_Unspecified(err) == new_error(Wrap("Crypto", err))

From_KeyRejected_Rsa(err) == new_error(Unit("InvalidRsaKey"))
From_KeyRejected(err) == new_error(Unit("InvalidEcdsaKey"))

From_ErrorKind_Default(k) == new_error(Unit("InvalidToken"))
From_ErrorKind(k) == new_error(k)

---------------------------------------------------------------------------
(* The caller's state machine *)

\* No accessor has been called on the Error yet.
NoCalls == [kind |-> None, fmt |-> None, description |-> None, cause |-> None,
            into_kind |-> None]

NoOrigin == [from |-> "none"]

Init ==
    /\ errs = [s \in Slots |-> Uninit]
    /\ origin = [s \in Slots |-> NoOrigin]
    /\ calls = [s \in Slots |-> NoCalls]
    /\ panicked = FALSE

\* A slot can be bound to a new Error when it holds none.
CanConstruct(s) == ~panicked /\ ~Live(errs[s])

Origin(from, input) == [from |-> from, input |-> input]

\* Error::from(err) for err : base64::DecodeError
ConvertDecodeError(s) ==
    \E err \in DecodeErrors :
        /\ CanConstruct(s)
        /\ errs' = [errs EXCEPT ![s] = From_DecodeError(err)]
        /\ origin' = [origin EXCEPT ![s] = Origin("base64::DecodeError", err)]
        /\ calls' = [calls EXCEPT ![s] = NoCalls]
        /\ UNCHANGED panicked

\* Error::from(err) for err : serde_json::Error
ConvertJsonError(s) ==
    \E err \in JsonErrors :
        /\ CanConstruct(s)
        /\ errs' = [errs EXCEPT ![s] = From_JsonError(err)]
        /\ origin' = [origin EXCEPT ![s] = Origin("serde_json::Error", err)]
        /\ calls' = [calls EXCEPT ![s] = NoCalls]
        /\ UNCHANGED panicked

\* Error::from(err) for err : FromUtf8Error
ConvertFromUtf8Error(s) ==
    \E err \in FromUtf8Errors :
        /\ CanConstruct(s)
        /\ errs' = [errs EXCEPT ![s] = From_FromUtf8Error(err)]
        /\ origin' = [origin EXCEPT ![s] = Origin("FromUtf8Error", err)]
        /\ calls' = [calls EXCEPT ![s] = NoCalls]
        /\ UNCHANGED panicked

\* Error::from(err) for err : ring::error::Unspecified
ConvertUnspecified(s) ==
    \E err \in Unspecifieds :
        /\ CanConstruct(s)
        /\ errs' = [errs EXCEPT ![s] = From_Unspecified(err)]
        /\ origin' = [origin EXCEPT ![s] = Origin("ring::error::Unspecified", err)]
        /\ calls' = [calls EXCEPT ![s] = NoCalls]
        /\ UNCHANGED panicked

\* Error::from(err) for err : ring::error::KeyRejected
ConvertKeyRejected(s) ==
    \E err \in KeyRejecteds :
        /\ CanConstruct(s)
        /\ errs' = [errs EXCEPT ![s] = From_KeyRejected(err)]
        /\ origin' = [origin EXCEPT ![s] = Origin("ring::error::KeyRejected", err)]
        /\ calls' = [calls EXCEPT ![s] = NoCalls]
        /\ UNCHANGED panicked

\* Error::from(k) for k : ErrorKind
ConvertErrorKind(s) ==
    \E k \in ErrorKind :
        /\ CanConstruct(s)
        /\ errs' = [errs EXCEPT ![s] = From_ErrorKind(k)]
        /\ origin' = [origin EXCEPT ![s] = Origin("ErrorKind", k)]
        /\ calls' = [calls EXCEPT ![s] = NoCalls]
        /\ UNCHANGED panicked

\* e.kind(): borrows the kind; the Error is left as it is.
CallKind(s) ==
    /\ ~panicked
    /\ Live(errs[s])
    /\ calls' = [calls EXCEPT ![s].kind = Some(kind(errs[s]))]
    /\ UNCHANGED <<errs, origin, panicked>>

\* format!("{}", e)
CallFmt(s) ==
    /\ ~panicked
    /\ Live(errs[s])
    /\ LET r == Error_fmt(errs[s]) IN
        /\ panicked' = r.panic
        /\ calls' = IF r.panic THEN calls
                    ELSE [calls EXCEPT ![s].fmt = Some(r.val)]
    /\ UNCHANGED <<errs, origin>>

\* e.description()
CallDescription(s) ==
    /\ ~panicked
    /\ Live(errs[s])
    /\ LET r == Error_description(errs[s]) IN
        /\ panicked' = r.panic
        /\ calls' = IF r.panic THEN calls
                    ELSE [calls EXCEPT ![s].description = Some(r.val)]
    /\ UNCHANGED <<errs, origin>>

\* A cause() that moves the payload out of the Error instead of borrowing it.
CallCause_Takes(s) ==
    /\ ~panicked
    /\ Live(errs[s])
    /\ calls' = [calls EXCEPT ![s].cause = Some(Error_cause(errs[s]))]
    /\ errs' = [errs EXCEPT ![s] =
                  IF errs[s].kind.tag \in WrappedTags
                  THEN new_error(Unit(NonexhaustiveTag)) ELSE errs[s]]
    /\ UNCHANGED <<origin, panicked>>

\* e.cause()
CallCause(s) ==
    /\ ~panicked
    /\ Live(errs[s])
    /\ calls' = [calls EXCEPT ![s].cause = Some(Error_cause(errs[s]))]
    /\ UNCHANGED <<errs, origin, panicked>>

\* e.into_kind(): takes the Error by value; the borrows taken from it are gone.
CallIntoKind(s) ==
    /\ ~panicked
    /\ Live(errs[s])
    /\ calls' = [calls EXCEPT ![s] =
                    [NoCalls EXCEPT !.into_kind = Some(into_kind(errs[s]))]]
    /\ errs' = [errs EXCEPT ![s] = Moved]
    /\ UNCHANGED <<origin, panicked>>

Next ==
    \E s \in Slots :
        \/ ConvertDecodeError(s)
        \/ ConvertJsonError(s)
        \/ ConvertFromUtf8Error(s)
        \/ ConvertUnspecified(s)
        \/ ConvertKeyRejected(s)
        \/ ConvertErrorKind(s)
        \/ CallKind(s)
        \/ CallFmt(s)
        \/ CallDescription(s)
        \/ CallCause(s)
        \/ CallIntoKind(s)

Spec == Init /\ [][Next]_vars

---------------------------------------------------------------------------
(* Properties *)

BuiltFrom(s, from) == origin[s].from = from
FromIntrinsic(s) == BuiltFrom(s, "ErrorKind") /\ origin[s].input.tag \in IntrinsicTags

\* C1: for every intrinsic tag T, an Error built from T by the bare-kind
\* conversion returns T from kind(), and into_kind() on it returns exactly T.
C1_BareKindRoundTrip ==
    \A s \in Slots : \A t \in IntrinsicTags :
        (BuiltFrom(s, "ErrorKind") /\ origin[s].input = Unit(t)) =>
            /\ calls[s].kind.some => calls[s].kind.val = Unit(t)
            /\ calls[s].into_kind.some => calls[s].into_kind.val = Unit(t)

C1_Witness ==
    \E s1, s2 \in Slots :
        /\ FromIntrinsic(s1) /\ calls[s1].kind.some
        /\ FromIntrinsic(s2) /\ calls[s2].into_kind.some
        /\ origin[s2].input = Unit("ExpiredSignature")

\* The canonical strings the documentation fixes for the intrinsic tags.
CanonicalString ==
    [t \in IntrinsicTags |->
        CASE t = "InvalidToken" -> "invalid token"
          [] t = "InvalidSignature" -> "invalid signature"
          [] t = "InvalidEcdsaKey" -> "invalid ECDSA key"
          [] t = "InvalidRsaKey" -> "invalid RSA key"
          [] t = "ExpiredSignature" -> "expired signature"
          [] t = "InvalidIssuer" -> "invalid issuer"
          [] t = "InvalidAudience" -> "invalid audience"
          [] t = "InvalidSubject" -> "invalid subject"
          [] t = "ImmatureSignature" -> "immature signature"
          [] t = "InvalidAlgorithm" -> "algorithms don't match"
          [] t = "InvalidAlgorithmName" -> "not a known algorithm"
          [] t = "InvalidKeyFormat" -> "invalid key format"]

\* C2: rendering an Error built from an intrinsic tag yields exactly that tag's
\* canonical string, the same string every time the tag is rendered.
C2_IntrinsicRendering ==
    \A s \in Slots :
        (FromIntrinsic(s) /\ calls[s].fmt.some) =>
            calls[s].fmt.val = CanonicalString[origin[s].input.tag]

C2_Witness ==
    \E s1, s2 \in Slots :
        /\ FromIntrinsic(s1) /\ origin[s1].input.tag = "InvalidAlgorithm"
        /\ calls[s1].fmt = Some("algorithms don't match")
        /\ FromIntrinsic(s2) /\ origin[s2].input.tag = "InvalidAlgorithmName"
        /\ calls[s2].fmt = Some("not a known algorithm")

\* C3: rendering an Error converted from a serialization failure p yields
\* "JSON error: " followed by p's own rendering; from a base64 decode failure,
\* "Base64 error: " followed by it; from a UTF-8 failure, "UTF-8 error: "
\* followed by it.
C3_WrappedRendering ==
    \A s \in Slots :
        calls[s].fmt.some =>
            /\ BuiltFrom(s, "serde_json::Error") =>
                calls[s].fmt.val = "JSON error: " \o ForeignDisplay(origin[s].input)
            /\ BuiltFrom(s, "base64::DecodeError") =>
                calls[s].fmt.val = "Base64 error: " \o ForeignDisplay(origin[s].input)
            /\ BuiltFrom(s, "FromUtf8Error") =>
                calls[s].fmt.val = "UTF-8 error: " \o ForeignDisplay(origin[s].input)

C3_Witness ==
    \E s1, s2 \in Slots :
        /\ BuiltFrom(s1, "serde_json::Error") /\ calls[s1].fmt.some
        /\ BuiltFrom(s2, "base64::DecodeError") /\ calls[s2].fmt.some

\* C4: rendering an Error converted from any unspecified crypto failure yields
\* exactly "Crypto error: undefined", and any two Errors carrying the Crypto
\* tag render identically whatever failure value they wrap.
C4_CryptoRenderingOpaque ==
    /\ \A s \in Slots :
        (BuiltFrom(s, "ring::error::Unspecified") /\ calls[s].fmt.some) =>
            calls[s].fmt.val = "Crypto error: undefined"
    /\ \A s1, s2 \in Slots :
        ( /\ Live(errs[s1]) /\ errs[s1].kind.tag = "Crypto" /\ calls[s1].fmt.some
          /\ Live(errs[s2]) /\ errs[s2].kind.tag = "Crypto" /\ calls[s2].fmt.some )
        => calls[s1].fmt.val = calls[s2].fmt.val

C4_Witness ==
    \E s1, s2 \in Slots :
        /\ BuiltFrom(s1, "ring::error::Unspecified") /\ calls[s1].fmt.some
        /\ BuiltFrom(s2, "ring::error::Unspecified") /\ calls[s2].fmt.some
        /\ origin[s1].input # origin[s2].input

\* C5: cause() reports no cause for every intrinsic tag and for the Crypto tag,
\* and for Base64-, Json- and Utf8-wrapped errors reports the wrapped payload
\* itself, whose rendering is therefore the payload's own rendering.
C5_CauseChain ==
    \A s \in Slots :
        (Live(errs[s]) /\ calls[s].cause.some) =>
            LET k == errs[s].kind
                c == calls[s].cause.val
            IN  /\ k.tag \in IntrinsicTags \cup {"Crypto"} => c = None
                /\ k.tag \in {"Base64", "Json", "Utf8"} =>
                    /\ c.some
                    /\ c.val = k.payload
                    /\ k.payload = origin[s].input \/ BuiltFrom(s, "ErrorKind")
                    /\ ForeignDisplay(c.val) = ForeignDisplay(k.payload)

C5_Witness ==
    \E s1, s2 \in Slots :
        /\ Live(errs[s1]) /\ errs[s1].kind.tag = "Crypto" /\ calls[s1].cause = Some(None)
        /\ Live(errs[s2]) /\ errs[s2].kind.tag = "Utf8" /\ calls[s2].cause.some
        /\ calls[s2].cause.val = Some(origin[s2].input)

\* C6: converting a key-rejection failure always yields the InvalidEcdsaKey tag
\* with no payload; two distinct rejections give Errors of the same kind and
\* the same rendering, "invalid ECDSA key".
C6_KeyRejectedCollapses ==
    /\ \A s \in Slots :
        BuiltFrom(s, "ring::error::KeyRejected") =>
            /\ Live(errs[s]) => errs[s].kind = Unit("InvalidEcdsaKey")
            /\ calls[s].kind.some => calls[s].kind.val = Unit("InvalidEcdsaKey")
            /\ calls[s].into_kind.some => calls[s].into_kind.val = Unit("InvalidEcdsaKey")
            /\ calls[s].fmt.some => calls[s].fmt.val = "invalid ECDSA key"
    /\ \A s1, s2 \in Slots :
        ( /\ BuiltFrom(s1, "ring::error::KeyRejected") /\ Live(errs[s1])
          /\ BuiltFrom(s2, "ring::error::KeyRejected") /\ Live(errs[s2]) )
        => /\ errs[s1] = errs[s2]
           /\ (calls[s1].fmt.some /\ calls[s2].fmt.some) => calls[s1].fmt = calls[s2].fmt

C6_Witness ==
    \E s1, s2 \in Slots :
        /\ BuiltFrom(s1, "ring::error::KeyRejected") /\ calls[s1].fmt.some
        /\ BuiltFrom(s2, "ring::error::KeyRejected") /\ calls[s2].fmt.some
        /\ calls[s1].kind.some /\ calls[s2].kind.some
        /\ origin[s1].input # origin[s2].input

\* The kind the conversion table lists for each source type.
ListedKind(o) ==
    CASE o.from = "base64::DecodeError" -> Wrap("Base64", o.input)
      [] o.from = "serde_json::Error" -> Wrap("Json", o.input)
      [] o.from = "FromUtf8Error" -> Wrap("Utf8", o.input)
      [] o.from = "ring::error::Unspecified" -> Wrap("Crypto", o.input)
      [] o.from = "ErrorKind" -> o.input

ListedSources ==
    { "base64::DecodeError", "serde_json::Error", "FromUtf8Error",
      "ring::error::Unspecified", "ErrorKind" }

\* C7: each conversion maps its source type to the one listed kind: Base64,
\* Json, Utf8 or Crypto carrying the original failure unchanged, or the bare
\* kind value itself; kind() and into_kind() return that kind.
C7_ConversionTable ==
    \A s \in Slots :
        origin[s].from \in ListedSources =>
            /\ Live(errs[s]) => errs[s].kind = ListedKind(origin[s])
            /\ calls[s].kind.some => calls[s].kind.val = ListedKind(origin[s])
            /\ calls[s].into_kind.some => calls[s].into_kind.val = ListedKind(origin[s])

C7_Witness ==
    \E s1, s2 \in Slots :
        /\ BuiltFrom(s1, "ring::error::Unspecified")
        /\ calls[s1].into_kind = Some(Wrap("Crypto", origin[s1].input))
        /\ BuiltFrom(s2, "FromUtf8Error")
        /\ calls[s2].kind = Some(Wrap("Utf8", origin[s2].input))

\* C8: the kind of an Error never changes while the Error lives: whatever
\* accessor runs, the Error is left as it was, kind() returns the stored kind,
\* a repeated rendering returns the same string, and the only step that ends
\* the Error's life is into_kind(), which returns that same kind.
C8_KindFixed ==
    [][\A s \in Slots :
          Live(errs[s]) =>
              \/ /\ errs'[s] = errs[s]
                 /\ calls'[s].kind.some => calls'[s].kind.val = errs[s].kind
                 /\ (calls[s].fmt.some /\ calls'[s].fmt.some) =>
                        calls'[s].fmt = calls[s].fmt
                 /\ ~calls'[s].into_kind.some
              \/ /\ errs'[s] = Moved
                 /\ calls'[s].into_kind = Some(errs[s].kind)
      ]_vars

C8_Witness ==
    \E s1, s2 \in Slots :
        /\ Live(errs[s1]) /\ errs[s1].kind.tag = "Json"
        /\ calls[s1].kind.some /\ calls[s1].fmt.some
        /\ calls[s1].description.some /\ calls[s1].cause.some
        /\ calls[s1].kind.val = Wrap("Json", origin[s1].input)
        /\ errs[s2] = Moved /\ calls[s2].into_kind.some

\* C9: an Error carrying the reserved catch-all tag renders as exactly
\* "unknown error" and reports no cause.
C9_CatchAll ==
    \A s \in Slots :
        (Live(errs[s]) /\ errs[s].kind = Unit(NonexhaustiveTag)) =>
            /\ calls[s].fmt.some => calls[s].fmt.val = "unknown error"
            /\ calls[s].cause.some => calls[s].cause.val = None

C9_Witness ==
    \E s \in Slots :
        /\ Live(errs[s]) /\ errs[s].kind = Unit(NonexhaustiveTag)
        /\ calls[s].fmt.some /\ calls[s].cause.some

ThirteenTags == IntrinsicTags \cup {NonexhaustiveTag}

\* C10: rendering and description never panic: the static table returns None
\* exactly for the four wrapped tags, Display and description() unwrap it only
\* for the other thirteen tags, and for those thirteen the two strings agree.
C10_NoPanic ==
    /\ ~panicked
    /\ { k.tag : k \in { x \in ErrorKind : ErrorKind_description(x) = None } }
          = WrappedTags
    /\ FmtUnwrapArm = ThirteenTags
    /\ DescriptionUnwrapArm = ThirteenTags
    /\ \A s \in Slots :
        ( /\ Live(errs[s]) /\ errs[s].kind.tag \in ThirteenTags
          /\ calls[s].fmt.some /\ calls[s].description.some )
        => calls[s].description.val = calls[s].fmt.val

C10_Witness ==
    \E s1, s2 \in Slots :
        /\ ~panicked
        /\ Live(errs[s1]) /\ errs[s1].kind.tag = NonexhaustiveTag
        /\ calls[s1].fmt.some /\ calls[s1].description.some
        /\ Live(errs[s2]) /\ errs[s2].kind.tag = "InvalidKeyFormat"
        /\ calls[s2].fmt.some /\ calls[s2].description.some

====
